---- MODULE Spec2Model ----
(***************************************************************************)
(* Verification model of the notebook helpers of qiskit-community-tutorials *)
(*   - show_results, execute_locally, execute_remotely (TeachMeQ exercises) *)
(*   - the run-in-order discipline of the exercise notebooks                *)
(*   - wine() of the VQC feature-map comparison notebook                    *)
(*   - the linear-inversion arithmetic of the tomography notebook           *)
(*   - the one-qubit circuit of hello_zero                                  *)
(***************************************************************************)
EXTENDS Integers, Sequences, FiniteSets, TLC

VARIABLES
    \* ---- session of the helper functions (w3_01.ipynb) ----
    pc,             \* statement the running helper is about to execute
    fn,             \* helper invoked last: execute_remotely / execute_locally / show_results
    draw_circuit,   \* the draw_circuit argument of the call
    job_status,     \* job_exp.status().name of the remote job ("NONE": not submitted)
    lapse,          \* loop counter of execute_remotely
    interval,       \* polling interval of execute_remotely (0: not yet assigned)
    exc,            \* exception in flight or propagated to the caller
    outcome,        \* how the last call ended: "none", "returned", "raised"
    failed_at,      \* statement at which the call's exception was raised
    caught,         \* kind of the exception the except clause swallowed
    run_backend,    \* backend the circuit was handed to by execute(...)
    result_counts,  \* counts dictionary, in insertion order: sequence of <<key, count>>
    n_select,       \* calls of least_busy in this invocation
    n_submit,       \* calls of execute(...) in this invocation
    n_unavailable,  \* prints of "All devices are currently unavailable."
    n_print,        \* prints of the result line ("simulation: " / "experiment: ")
    n_draw,         \* calls of draw(qc)
    n_hist,         \* histograms shown (plt.show in show_results)
    sleeps,         \* time.sleep calls since the loop condition was last evaluated
    last_sleep,     \* argument of the last time.sleep call
    bars,           \* plt.bar: sequence of <<position, height>>
    ticks,          \* plt.xticks: sequence of <<position, label>>
    \* ---- running the cells of an exercise notebook in order ----
    nb,             \* notebook being run ("none": no notebook is run)
    cell,           \* index of the next cell to run
    defined,        \* names bound in the kernel's namespace
    name_error,     \* names a cell needed and did not find (NameError)
    \* ---- wine(training_size, test_size, n_features) ----
    w_pc,           \* statement wine is about to execute
    training_size,  \* argument
    test_size,      \* argument
    n_features,     \* argument
    plot_data,      \* argument
    data,           \* shape <<rows, columns>> of the loaded data
    target,         \* number of loaded labels
    sample_train,   \* shape <<rows, columns>> of the training samples
    sample_test,    \* shape <<rows, columns>> of the test samples
    label_train,    \* number of training labels
    label_test,     \* number of test labels
    samples,        \* shape of the array the min-max scaler is fitted on
    \* ---- 1-qubit linear inversion (tomography notebook) ----
    t_pc,           \* cell of the linear-inversion example to run next
    M,              \* the 6 x 4 matrix of flattened projectors
    M_dg,           \* np.conj(M).T
    linear_inversion_matrix,
    rho,            \* a 2 x 2 matrix handed to the example
    p,              \* M applied to the flattened rho
    rho_rec,        \* linear_inversion_matrix applied to p
    \* ---- Hilbert-Schmidt product and 2-qubit linear inversion ----
    hs_A,           \* first argument of the last HS_product call
    hs_B,           \* second argument of the last HS_product call
    hs,             \* value the call returned
    projectors_2,   \* the 2-qubit projectors
    M_2,            \* the matrix of flattened 2-qubit projectors
    M_dg_2,         \* np.conj(M_2).T
    linear_inversion_matrix_2,
    statefit_data,  \* keys of statefit.data: the measurement settings
    \* ---- hello_zero.ipynb ----
    h_pc,           \* cell of hello_zero to run next
    program,        \* instructions of the circuit
    backend,        \* backend the circuit is executed on
    statevector,    \* amplitudes of the qubit before the measurement
    shot,           \* shots executed so far
    tally,          \* <<shots that gave 0, shots that gave 1>>
    flips,          \* shots the noise of the device has flipped
    counts          \* job.result().get_counts(): sequence of <<key, count>>

session_vars == <<pc, fn, draw_circuit, job_status, lapse, interval, exc, outcome,
                  failed_at, caught, run_backend, result_counts, n_select,
                  n_submit,
                  n_unavailable, n_print, n_draw, n_hist, sleeps, last_sleep,
                  bars, ticks>>

nb_vars == <<nb, cell, defined, name_error>>

wine_vars == <<w_pc, training_size, test_size, n_features, plot_data,
               data, target, sample_train, sample_test, label_train, label_test, samples>>

tomo_vars == <<t_pc, M, M_dg, linear_inversion_matrix, rho, p, rho_rec>>

tomo2_vars == <<hs_A, hs_B, hs, projectors_2, M_2, M_dg_2,
                linear_inversion_matrix_2, statefit_data>>

hello_vars == <<h_pc, program, backend, statevector, shot, tally, flips, counts>>

other_vars == <<nb_vars, wine_vars, tomo_vars, tomo2_vars, hello_vars>>

vars == <<session_vars, other_vars>>

\* ---------------------------------------------------------------- bounds
MaxLapse == 3      \* lapse is tracked exactly below MaxLapse; MaxLapse stands for "MaxLapse or more"
MaxDict  == 2      \* largest counts dictionary
MaxCount == 2      \* largest count in a dictionary
MaxTrain == 12     \* largest training_size passed to wine
MaxTest  == 12     \* largest test_size passed to wine
MaxFeat  == 4      \* largest n_features passed to wine
MaxEntry == 1      \* largest modulus of an entry of a matrix handed to M
BlochDen == 2      \* Bloch vectors have coordinates k / BlochDen

\* ---------------------------------------------------------------- data
Outcomes == {"00", "01", "11"}

\* dictionaries from outcomes to counts, in insertion order, keys distinct
Dicts ==
    {d \in UNION {[1..n -> Outcomes \X (1..MaxCount)] : n \in 0..MaxDict} :
        \A i, j \in DOMAIN d : i # j => d[i][1] # d[j][1]}

\* qiskit JobStatus names
FinalStatus   == {"DONE", "CANCELLED", "ERROR"}
PendingStatus == {"INITIALIZING", "QUEUED", "VALIDATING", "RUNNING"}

StatusRank(s) ==
    CASE s = "INITIALIZING" -> 1
      [] s = "QUEUED"       -> 2
      [] s = "VALIDATING"   -> 3
      [] s = "RUNNING"      -> 4
      [] OTHER              -> 5

ExcKinds == {"Exception", "KeyboardInterrupt"}

\* statements of execute_remotely inside its try block
TrySteps == {"er_select", "er_print_device", "er_submit", "er_init", "er_while",
             "er_print_lapse", "er_print_status", "er_sleep", "er_incr",
             "er_print_done", "er_result", "er_counts", "er_print", "er_show"}

\* statements of execute_remotely that call into the SDK or a library
TryCalls == TrySteps \ {"er_init", "er_incr"}

LoopSteps == {"er_while", "er_print_lapse", "er_print_status", "er_sleep", "er_incr"}

LocalSteps == {"el_backend", "el_execute", "el_result", "el_counts", "el_print",
               "el_branch"}

ShowSteps == {"sr_bar", "sr_xticks", "sr_show"}

\* ---------------------------------------------------------------- show_results
Keys(D)   == [i \in DOMAIN D |-> D[i][1]]      \* list(D.keys())
Values(D) == [i \in DOMAIN D |-> D[i][2]]      \* list(D.values())
Range0(n) == [i \in 1..n |-> i - 1]            \* range(n), as a list

\* plt.bar(range(len(D)), list(D.values()), align='center')
BarPlot(D) == [i \in DOMAIN D |-> <<Range0(Len(D))[i], Values(D)[i]>>]

\* faulty variant: the labels are laid out from the last key to the first
TickPlot_Reversed(D) ==
    [i \in DOMAIN D |-> <<Range0(Len(D))[i], Keys(D)[Len(D) + 1 - i]>>]

\* plt.xticks(range(len(D)), list(D.keys()))
TickPlot(D) == [i \in DOMAIN D |-> <<Range0(Len(D))[i], Keys(D)[i]>>]

\* a call starts from a clean slate: every per-invocation observation is reset
Enter(f, first, dc, D) ==
    /\ pc = "idle"
    /\ pc' = first
    /\ fn' = f
    /\ draw_circuit' = dc
    /\ job_status' = "NONE"
    /\ lapse' = 0
    /\ interval' = 0
    /\ exc' = "none"
    /\ outcome' = "none"
    /\ failed_at' = "none"
    /\ caught' = "none"
    /\ run_backend' = "none"
    /\ result_counts' = D
    /\ n_select' = 0
    /\ n_submit' = 0
    /\ n_unavailable' = 0
    /\ n_print' = 0
    /\ n_draw' = 0
    /\ n_hist' = 0
    /\ sleeps' = 0
    /\ last_sleep' = 0
    /\ bars' = <<>>
    /\ ticks' = <<>>
    /\ UNCHANGED other_vars

\* the variables a plain statement leaves alone
Frame(changed) ==
    /\ "fn" \in changed \/ fn' = fn
    /\ "draw_circuit" \in changed \/ draw_circuit' = draw_circuit
    /\ "job_status" \in changed \/ job_status' = job_status
    /\ "lapse" \in changed \/ lapse' = lapse
    /\ "interval" \in changed \/ interval' = interval
    /\ "exc" \in changed \/ exc' = exc
    /\ "outcome" \in changed \/ outcome' = outcome
    /\ "failed_at" \in changed \/ failed_at' = failed_at
    /\ "caught" \in changed \/ caught' = caught
    /\ "run_backend" \in changed \/ run_backend' = run_backend
    /\ "result_counts" \in changed \/ result_counts' = result_counts
    /\ "n_select" \in changed \/ n_select' = n_select
    /\ "n_submit" \in changed \/ n_submit' = n_submit
    /\ "n_unavailable" \in changed \/ n_unavailable' = n_unavailable
    /\ "n_print" \in changed \/ n_print' = n_print
    /\ "n_draw" \in changed \/ n_draw' = n_draw
    /\ "n_hist" \in changed \/ n_hist' = n_hist
    /\ "sleeps" \in changed \/ sleeps' = sleeps
    /\ "last_sleep" \in changed \/ last_sleep' = last_sleep
    /\ "bars" \in changed \/ bars' = bars
    /\ "ticks" \in changed \/ ticks' = ticks
    /\ UNCHANGED other_vars

\* the call returns normally to the notebook cell
Return ==
    /\ pc' = "idle"
    /\ outcome' = "returned"

\* show_results(D) called directly from a cell
SR_Call ==
    \E D \in Dicts : Enter("show_results", "sr_bar", FALSE, D)

SR_Bar ==
    /\ pc = "sr_bar"
    /\ bars' = BarPlot(result_counts)
    /\ pc' = "sr_xticks"
    /\ Frame({"bars"})

SR_Xticks ==
    /\ pc = "sr_xticks"
    /\ ticks' = TickPlot(result_counts)
    /\ pc' = "sr_show"
    /\ Frame({"ticks"})

\* plt.show(), then back to the caller (the last statement of both callers)
SR_Show ==
    /\ pc = "sr_show"
    /\ n_hist' = n_hist + 1
    /\ Return
    /\ Frame({"n_hist", "outcome"})

\* ---------------------------------------------------------------- execute_locally
EL_Call ==
    \E dc \in BOOLEAN : Enter("execute_locally", "el_backend", dc, <<>>)

\* backend_sim = Aer.get_backend('qasm_simulator')
EL_Backend ==
    /\ pc = "el_backend"
    /\ run_backend' = "qasm_simulator"
    /\ pc' = "el_execute"
    /\ Frame({"run_backend"})

\* job_sim = execute(qc, backend_sim)
EL_Execute ==
    /\ pc = "el_execute"
    /\ n_submit' = n_submit + 1
    /\ pc' = "el_result"
    /\ Frame({"n_submit"})

\* result_sim = job_sim.result()
EL_Result ==
    /\ pc = "el_result"
    /\ pc' = "el_counts"
    /\ Frame({})

\* result_counts = result_sim.get_counts(qc)
EL_Counts ==
    /\ pc = "el_counts"
    /\ \E D \in Dicts : Len(D) > 0 /\ result_counts' = D
    /\ pc' = "el_print"
    /\ Frame({"result_counts"})

\* print("simulation: ", result_sim, result_counts)
EL_Print ==
    /\ pc = "el_print"
    /\ n_print' = n_print + 1
    /\ pc' = "el_branch"
    /\ Frame({"n_print"})

\* faulty variant: the else is lost, the histogram is shown after drawing too
EL_Branch_Both ==
    /\ pc = "el_branch"
    /\ n_draw' = IF draw_circuit THEN n_draw + 1 ELSE n_draw
    /\ pc' = "sr_bar"
    /\ Frame({"n_draw"})

\* if draw_circuit: draw(qc)   else: show_results(result_counts)
EL_Branch ==
    /\ pc = "el_branch"
    /\ IF draw_circuit
         THEN /\ n_draw' = n_draw + 1
              /\ Return
              /\ Frame({"n_draw", "outcome"})
         ELSE /\ pc' = "sr_bar"
              /\ Frame({})

\* faulty variant: the body is wrapped in the try/except of execute_remotely
EL_Raise_Caught ==
    \E kind \in ExcKinds :
        /\ \/ pc \in LocalSteps
           \/ pc \in ShowSteps /\ fn \in {"execute_locally", "show_results"}
        /\ caught' = kind
        /\ failed_at' = pc
        /\ n_unavailable' = n_unavailable + 1
        /\ Return
        /\ Frame({"caught", "failed_at", "n_unavailable", "outcome"})

\* no try statement in execute_locally: the exception reaches the caller
EL_Raise ==
    \E kind \in ExcKinds :
        /\ \/ pc \in LocalSteps
           \/ pc \in ShowSteps /\ fn \in {"execute_locally", "show_results"}
        /\ exc' = kind
        /\ failed_at' = pc
        /\ pc' = "idle"
        /\ outcome' = "raised"
        /\ Frame({"exc", "failed_at", "outcome"})

\* ---------------------------------------------------------------- execute_remotely
PollInterval == 10

ER_Call ==
    \E dc \in BOOLEAN : Enter("execute_remotely", "er_draw", dc, <<>>)

\* if draw_circuit: draw(qc)            (before the try statement)
ER_Draw ==
    /\ pc = "er_draw"
    /\ n_draw' = IF draw_circuit THEN n_draw + 1 ELSE n_draw
    /\ pc' = "er_select"
    /\ Frame({"n_draw"})

\* least_busy_device = least_busy(IBMQ.backends(simulator=False))
ER_Select ==
    /\ pc = "er_select"
    /\ n_select' = n_select + 1
    /\ pc' = "er_print_device"
    /\ Frame({"n_select"})

\* print("Running on current least busy device: ", least_busy_device)
ER_PrintDevice ==
    /\ pc = "er_print_device"
    /\ pc' = "er_submit"
    /\ Frame({})

\* job_exp = execute(qc, backend=least_busy_device, shots=1024, max_credits=10)
ER_Submit ==
    /\ pc = "er_submit"
    /\ n_submit' = n_submit + 1
    /\ run_backend' = "least_busy_device"
    /\ job_status' = "INITIALIZING"
    /\ pc' = "er_init"
    /\ Frame({"n_submit", "run_backend", "job_status"})

\* lapse, interval = 0, 10
ER_Init ==
    /\ pc = "er_init"
    /\ lapse' = 0
    /\ interval' = PollInterval
    /\ pc' = "er_while"
    /\ Frame({"lapse", "interval"})

\* the loop condition of execute_remotely
LoopCondition(status) == status # "DONE"

\* while job_exp.status().name != 'DONE':
ER_While ==
    /\ pc = "er_while"
    /\ pc' = IF LoopCondition(job_status) THEN "er_print_lapse" ELSE "er_print_done"
    /\ sleeps' = 0
    /\ Frame({"sleeps"})

\* print('Status @ {} seconds'.format(interval * lapse))
ER_PrintLapse ==
    /\ pc = "er_print_lapse"
    /\ pc' = "er_print_status"
    /\ Frame({})

\* print(job_exp.status())
ER_PrintStatus ==
    /\ pc = "er_print_status"
    /\ pc' = "er_sleep"
    /\ Frame({})

\* faulty variant: the wait grows with every iteration (back-off)
SleepTime_BackOff == interval * (lapse + 1)

\* the argument of time.sleep in the loop
SleepTime == interval

\* time.sleep(interval)
ER_Sleep ==
    /\ pc = "er_sleep"
    /\ sleeps' = sleeps + 1
    /\ last_sleep' = SleepTime
    /\ pc' = "er_incr"
    /\ Frame({"sleeps", "last_sleep"})

\* lapse += 1     (counted exactly below MaxLapse)
ER_Incr ==
    /\ pc = "er_incr"
    /\ lapse' = IF lapse < MaxLapse THEN lapse + 1 ELSE lapse
    /\ pc' = "er_while"
    /\ Frame({"lapse"})

\* print(job_exp.status())
ER_PrintDone ==
    /\ pc = "er_print_done"
    /\ pc' = "er_result"
    /\ Frame({})

\* exp_result = job_exp.result()
ER_Result ==
    /\ pc = "er_result"
    /\ pc' = "er_counts"
    /\ Frame({})

\* result_counts = exp_result.get_counts(qc)
ER_Counts ==
    /\ pc = "er_counts"
    /\ \E D \in Dicts : Len(D) > 0 /\ result_counts' = D
    /\ pc' = "er_print"
    /\ Frame({"result_counts"})

\* print("experiment: ", exp_result, result_counts)
ER_Print ==
    /\ pc = "er_print"
    /\ n_print' = n_print + 1
    /\ pc' = "er_show"
    /\ Frame({"n_print"})

\* if not draw_circuit: show_results(result_counts)
ER_Show ==
    /\ pc = "er_show"
    /\ IF ~draw_circuit
         THEN /\ pc' = "sr_bar"
              /\ Frame({})
         ELSE /\ Return
              /\ Frame({"outcome"})

\* faulty variant: the try block ends after the polling loop, so that fetching,
\* printing and plotting the result are not covered by the except clause
HandlerOf_NarrowTry(stmt) ==
    IF stmt \in {"er_result", "er_counts", "er_print", "er_show"} \cup ShowSteps
      THEN "idle"
      ELSE "er_except"

\* where control goes when a statement of the try block raises
HandlerOf(stmt) == "er_except"

\* a statement inside the try block raises: any exception at a call, an
\* asynchronous KeyboardInterrupt at any statement
ER_Raise ==
    \E kind \in ExcKinds :
        /\ \/ pc \in TryCalls
           \/ pc \in TrySteps /\ kind = "KeyboardInterrupt"
           \/ pc \in ShowSteps /\ fn = "execute_remotely"
        /\ exc' = kind
        /\ failed_at' = pc
        /\ pc' = HandlerOf(pc)
        /\ Frame({"exc", "failed_at"})

\* draw(qc) raises before the try statement is entered: nothing catches it
ER_DrawRaise ==
    \E kind \in ExcKinds :
        /\ pc = "er_draw"
        /\ draw_circuit \/ kind = "KeyboardInterrupt"
        /\ exc' = kind
        /\ failed_at' = pc
        /\ pc' = "idle"
        /\ outcome' = "raised"
        /\ Frame({"exc", "failed_at", "outcome"})

\* faulty variant: the except clause retries on another device
ER_Except_Retry ==
    /\ pc = "er_except"
    /\ n_unavailable' = n_unavailable + 1
    /\ caught' = exc
    /\ exc' = "none"
    /\ pc' = "er_select"
    /\ Frame({"n_unavailable", "caught", "exc"})

\* faulty variant: "except Exception:", which lets a KeyboardInterrupt through
ER_Except_OnlyException ==
    /\ pc = "er_except"
    /\ IF exc = "KeyboardInterrupt"
         THEN /\ pc' = "idle"
              /\ outcome' = "raised"
              /\ Frame({"outcome"})
         ELSE /\ n_unavailable' = n_unavailable + 1
              /\ caught' = exc
              /\ exc' = "none"
              /\ Return
              /\ Frame({"n_unavailable", "caught", "exc", "outcome"})

\* except:  print("All devices are currently unavailable.")
ER_Except ==
    /\ pc = "er_except"
    /\ n_unavailable' = n_unavailable + 1
    /\ caught' = exc
    /\ exc' = "none"
    /\ Return
    /\ Frame({"n_unavailable", "caught", "exc", "outcome"})

\* the remote job advances on the device, whatever the notebook is doing
JobProgress ==
    /\ job_status \in PendingStatus
    /\ \E s \in PendingStatus \cup FinalStatus :
          /\ StatusRank(s) > StatusRank(job_status)
          /\ job_status' = s
    /\ pc' = pc
    /\ Frame({"job_status"})

\* the statements execute_remotely itself executes
ER_Step ==
    \/ ER_Draw \/ ER_Select \/ ER_PrintDevice \/ ER_Submit \/ ER_Init
    \/ ER_While \/ ER_PrintLapse \/ ER_PrintStatus \/ ER_Sleep \/ ER_Incr
    \/ ER_PrintDone \/ ER_Result \/ ER_Counts \/ ER_Print \/ ER_Show
    \/ ER_Except
    \/ (fn = "execute_remotely" /\ (SR_Bar \/ SR_Xticks \/ SR_Show))

\* ---------------------------------------------------------------- session
NotebookIdle ==
    /\ nb = "none"
    /\ cell = 0
    /\ defined = {}
    /\ name_error = {}

WineIdle ==
    /\ w_pc = "idle"
    /\ training_size = 0
    /\ test_size = 0
    /\ n_features = 0
    /\ plot_data = FALSE
    /\ data = <<0, 0>>
    /\ target = 0
    /\ sample_train = <<0, 0>>
    /\ sample_test = <<0, 0>>
    /\ label_train = 0
    /\ label_test = 0
    /\ samples = <<0, 0>>

TomoIdle ==
    /\ t_pc = "idle"
    /\ M = <<>>
    /\ M_dg = <<>>
    /\ linear_inversion_matrix = <<>>
    /\ rho = <<>>
    /\ p = <<>>
    /\ rho_rec = <<>>

Tomo2Idle ==
    /\ hs_A = <<>>
    /\ hs_B = <<>>
    /\ hs = <<>>
    /\ projectors_2 = <<>>
    /\ M_2 = <<>>
    /\ M_dg_2 = <<>>
    /\ linear_inversion_matrix_2 = <<>>
    /\ statefit_data = <<>>

HelloIdle ==
    /\ h_pc = "idle"
    /\ program = <<>>
    /\ backend = "none"
    /\ statevector = <<>>
    /\ shot = 0
    /\ tally = <<0, 0>>
    /\ flips = 0
    /\ counts = <<>>

OtherIdle == NotebookIdle /\ WineIdle /\ TomoIdle /\ Tomo2Idle /\ HelloIdle

SessionInit ==
    /\ pc = "idle"
    /\ fn = "none"
    /\ draw_circuit = FALSE
    /\ job_status = "NONE"
    /\ lapse = 0
    /\ interval = 0
    /\ exc = "none"
    /\ outcome = "none"
    /\ failed_at = "none"
    /\ caught = "none"
    /\ run_backend = "none"
    /\ result_counts = <<>>
    /\ n_select = 0
    /\ n_submit = 0
    /\ n_unavailable = 0
    /\ n_print = 0
    /\ n_draw = 0
    /\ n_hist = 0
    /\ sleeps = 0
    /\ last_sleep = 0
    /\ bars = <<>>
    /\ ticks = <<>>

Init == SessionInit /\ OtherIdle

Next ==
    \/ SR_Call \/ SR_Bar \/ SR_Xticks \/ SR_Show
    \/ EL_Call \/ EL_Backend \/ EL_Execute \/ EL_Result \/ EL_Counts
    \/ EL_Print \/ EL_Branch \/ EL_Raise
    \/ ER_Call \/ ER_Draw \/ ER_Select \/ ER_PrintDevice \/ ER_Submit \/ ER_Init
    \/ ER_While \/ ER_PrintLapse \/ ER_PrintStatus \/ ER_Sleep \/ ER_Incr
    \/ ER_PrintDone \/ ER_Result \/ ER_Counts \/ ER_Print \/ ER_Show
    \/ ER_Raise \/ ER_DrawRaise \/ ER_Except
    \/ JobProgress

Spec == Init /\ [][Next]_vars

\* the interpreter keeps executing the statements of a running call
FairSpec == Spec /\ WF_vars(ER_Step)

\* ---------------------------------------------------------------- notebooks
\* the notebooks of the two exercises directories: w3_01.ipynb, and the two
\* notebooks of IBMQ_setup.ipynb ("IBM Q setup" and "Quantum Facts in Qiskit")
Notebooks == {"w3_01", "ibmq_setup", "quantum_facts"}

NumCells(n) ==
    CASE n = "w3_01"         -> 60
      [] n = "ibmq_setup"    -> 15
      [] n = "quantum_facts" -> 64

Builtins == {"print", "range", "len", "list"}

\* a cell: the names it binds, the names it needs from earlier cells, and
\* the functions it calls (their bodies are resolved when called)
CellOf(d, u, c) == [defs |-> d, uses |-> u, calls |-> c]

Blank == CellOf({}, {}, {})

\* the set-up cells the two exercise notebooks share (cells 2 to 16)
Prelude ==
    (2  :> CellOf({"QuantumCircuit", "ClassicalRegister", "QuantumRegister", "execute"}, {}, {})) @@
    (3  :> CellOf({"draw"}, {}, {})) @@
    (4  :> CellOf({"IBMQ"}, {}, {})) @@
    (7  :> CellOf({"plt", "show_results"}, {}, {})) @@
    (9  :> CellOf({"Aer"}, {"print"}, {})) @@
    (10 :> CellOf({}, {"print", "IBMQ"}, {})) @@
    (12 :> CellOf({"execute_locally"}, {}, {})) @@
    (14 :> CellOf({"least_busy", "time", "execute_remotely"}, {}, {})) @@
    (16 :> CellOf({"new_circuit"}, {}, {}))

\* the code cells that are not blank or comment-only
CodeCells(n) ==
    CASE n = "w3_01" -> Prelude
      [] n = "ibmq_setup" ->
            (3  :> CellOf({"qiskit"}, {}, {})) @@
            (5  :> CellOf({"IBMQ"}, {}, {})) @@
            (7  :> CellOf({}, {"IBMQ"}, {})) @@
            (9  :> CellOf({}, {"IBMQ"}, {})) @@
            (11 :> CellOf({"backend"}, {"IBMQ", "print"}, {})) @@
            (13 :> CellOf({"backend_0"}, {"IBMQ", "print"}, {})) @@
            (14 :> CellOf({}, {"print", "backend_0"}, {}))
      [] n = "quantum_facts" ->
            Prelude @@
            (62 :> CellOf({}, {"circuit"}, {"execute_remotely"}))

\* the global names a helper's body reads when it is called
BodyNames(f) ==
    CASE f = "show_results"     -> {"plt", "range", "len", "list"}
      [] f = "execute_locally"  -> {"Aer", "execute", "print", "draw", "show_results"}
      [] f = "execute_remotely" -> {"draw", "least_busy", "IBMQ", "print", "execute",
                                    "time", "show_results"}
      [] f = "new_circuit"      -> {"QuantumRegister", "ClassicalRegister",
                                    "QuantumCircuit"}

CellAt(n, i) == IF i \in DOMAIN CodeCells(n) THEN CodeCells(n)[i] ELSE Blank

\* every name running the cell looks up
Needed(c) == c.uses \cup c.calls \cup UNION {BodyNames(f) : f \in c.calls}

\* the next cell runs: its names are all bound
RunCell ==
    /\ nb \in Notebooks
    /\ cell <= NumCells(nb)
    /\ name_error = {}
    /\ Needed(CellAt(nb, cell)) \subseteq defined
    /\ defined' = defined \cup CellAt(nb, cell).defs
    /\ cell' = cell + 1
    /\ UNCHANGED <<nb, name_error>>
    /\ UNCHANGED <<session_vars, wine_vars, tomo_vars, tomo2_vars, hello_vars>>

\* the next cell stops with a NameError, and the run stops with it
CellFails ==
    /\ nb \in Notebooks
    /\ cell <= NumCells(nb)
    /\ name_error = {}
    /\ ~(Needed(CellAt(nb, cell)) \subseteq defined)
    /\ name_error' = Needed(CellAt(nb, cell)) \ defined
    /\ UNCHANGED <<nb, cell, defined>>
    /\ UNCHANGED <<session_vars, wine_vars, tomo_vars, tomo2_vars, hello_vars>>

NotebookInit ==
    /\ nb \in Notebooks
    /\ cell = 1
    /\ defined = Builtins
    /\ name_error = {}

NotebookNext == RunCell \/ CellFails

InitNotebook ==
    SessionInit /\ NotebookInit /\ WineIdle /\ TomoIdle /\ Tomo2Idle /\ HelloIdle

SpecNotebook == InitNotebook /\ [][NotebookNext]_vars

\* ---------------------------------------------------------------- wine
\* load_wine(return_X_y=True): 178 rows of 13 features
WineRows == 178
WineCols == 13

Min(a, b) == IF a <= b THEN a ELSE b

\* a[:k] on an array of n rows, k >= 0
SliceRows(n, k) == Min(n, k)

\* train_test_split(data, target, test_size=t): t rows to the test set, the
\* rest to the training set; <<train rows, test rows>>
TrainTestSplit(n, t) == <<n - t, t>>

\* sample_test = sample_test[:training_size, :]; label_test likewise
TestSliceBound == training_size

W_Load ==
    /\ w_pc = "load"
    /\ data' = <<WineRows, WineCols>>
    /\ target' = WineRows
    /\ w_pc' = "split"
    /\ UNCHANGED <<training_size, test_size, n_features, plot_data, samples,
                   sample_train, sample_test, label_train, label_test>>
    /\ UNCHANGED <<session_vars, nb_vars, tomo_vars, tomo2_vars, hello_vars>>

\* sklearn refuses a test_size that leaves one of the two sets empty
W_Split ==
    /\ w_pc = "split"
    /\ IF test_size >= 1 /\ test_size < data[1]
         THEN /\ sample_train' = <<TrainTestSplit(data[1], test_size)[1], data[2]>>
              /\ sample_test'  = <<TrainTestSplit(data[1], test_size)[2], data[2]>>
              /\ label_train' = TrainTestSplit(target, test_size)[1]
              /\ label_test'  = TrainTestSplit(target, test_size)[2]
              /\ w_pc' = "std_scale"
         ELSE /\ w_pc' = "raised"
              /\ UNCHANGED <<sample_train, sample_test, label_train, label_test>>
    /\ UNCHANGED <<data, target, training_size, test_size, n_features, plot_data, samples>>
    /\ UNCHANGED <<session_vars, nb_vars, tomo_vars, tomo2_vars, hello_vars>>

\* StandardScaler().fit(sample_train), transform of both sets: shapes kept
W_StdScale ==
    /\ w_pc = "std_scale"
    /\ w_pc' = "pca"
    /\ UNCHANGED <<data, target, training_size, test_size, n_features, plot_data, samples,
                   sample_train, sample_test, label_train, label_test>>
    /\ UNCHANGED <<session_vars, nb_vars, tomo_vars, tomo2_vars, hello_vars>>

\* PCA(n_components=n_features).fit(sample_train), transform of both sets
W_PCA ==
    /\ w_pc = "pca"
    /\ IF n_features >= 1 /\ n_features <= Min(sample_train[1], sample_train[2])
         THEN /\ sample_train' = <<sample_train[1], n_features>>
              /\ sample_test'  = <<sample_test[1], n_features>>
              /\ w_pc' = "minmax"
         ELSE /\ w_pc' = "raised"
              /\ UNCHANGED <<sample_train, sample_test>>
    /\ UNCHANGED <<data, target, training_size, test_size, n_features, plot_data, samples,
                   label_train, label_test>>
    /\ UNCHANGED <<session_vars, nb_vars, tomo_vars, tomo2_vars, hello_vars>>

\* samples = np.append(sample_train, sample_test, axis=0); MinMaxScaler fitted
\* on samples, transform of both sets: shapes kept
W_MinMax ==
    /\ w_pc = "minmax"
    /\ samples' = <<sample_train[1] + sample_test[1], sample_train[2]>>
    /\ w_pc' = "slice"
    /\ UNCHANGED <<data, target, training_size, test_size, n_features, plot_data,
                   sample_train, sample_test, label_train, label_test>>
    /\ UNCHANGED <<session_vars, nb_vars, tomo_vars, tomo2_vars, hello_vars>>

\* the four slices
W_Slice ==
    /\ w_pc = "slice"
    /\ sample_train' = <<SliceRows(sample_train[1], training_size), sample_train[2]>>
    /\ label_train' = SliceRows(label_train, training_size)
    /\ sample_test' = <<SliceRows(sample_test[1], TestSliceBound), sample_test[2]>>
    /\ label_test' = SliceRows(label_test, TestSliceBound)
    /\ w_pc' = "plot"
    /\ UNCHANGED <<data, target, training_size, test_size, n_features, plot_data, samples>>
    /\ UNCHANGED <<session_vars, nb_vars, tomo_vars, tomo2_vars, hello_vars>>

\* if plot_data: scatter plot of the training samples; then return
W_Return ==
    /\ w_pc = "plot"
    /\ w_pc' = "done"
    /\ UNCHANGED <<data, target, training_size, test_size, n_features, plot_data, samples,
                   sample_train, sample_test, label_train, label_test>>
    /\ UNCHANGED <<session_vars, nb_vars, tomo_vars, tomo2_vars, hello_vars>>

WineInit ==
    /\ w_pc = "load"
    /\ training_size \in 0..MaxTrain
    /\ test_size \in 1..MaxTest
    /\ n_features \in 1..MaxFeat
    /\ plot_data \in BOOLEAN
    /\ data = <<0, 0>>
    /\ target = 0
    /\ sample_train = <<0, 0>>
    /\ sample_test = <<0, 0>>
    /\ label_train = 0
    /\ label_test = 0
    /\ samples = <<0, 0>>

WineNext ==
    W_Load \/ W_Split \/ W_StdScale \/ W_PCA \/ W_MinMax \/ W_Slice \/ W_Return

InitWine ==
    SessionInit /\ NotebookIdle /\ WineInit /\ TomoIdle /\ Tomo2Idle /\ HelloIdle

SpecWine == InitWine /\ [][WineNext]_vars

\* ---------------------------------------------------------------- complex numbers
\* <<a, b, d>> is (a + b i) / d, with d > 0 and gcd(a, b, d) = 1: exact
\* arithmetic on the complex rationals the arrays of the example hold
Abs(a) == IF a < 0 THEN -a ELSE a

RECURSIVE GCD(_, _)
GCD(a, b) == IF b = 0 THEN a ELSE GCD(b, a % b)

Cx(a, b, d) ==
    LET g == GCD(GCD(Abs(a), Abs(b)), d)
    IN  <<a \div g, b \div g, d \div g>>

Zero == <<0, 0, 1>>
One  == <<1, 0, 1>>
Half == <<1, 0, 2>>

CAdd(x, y)  == Cx(x[1] * y[3] + y[1] * x[3], x[2] * y[3] + y[2] * x[3], x[3] * y[3])
CNeg(x)     == <<-x[1], -x[2], x[3]>>
CSub(x, y)  == CAdd(x, CNeg(y))
CMul(x, y)  == Cx(x[1] * y[1] - x[2] * y[2], x[1] * y[2] + x[2] * y[1], x[3] * y[3])
CConj(x)    == <<x[1], -x[2], x[3]>>
\* 1 / x, x # 0
CInv(x)     == Cx(x[1] * x[3], -x[2] * x[3], x[1] * x[1] + x[2] * x[2])

\* the sum of s[a..b], by halves
RECURSIVE SumRange(_, _, _)
SumRange(s, a, b) ==
    IF a > b THEN Zero
    ELSE IF a = b THEN s[a]
    ELSE LET m == (a + b) \div 2
         IN  CAdd(SumRange(s, a, m), SumRange(s, m + 1, b))

SumSeq(s) == SumRange(s, 1, Len(s))

\* ---------------------------------------------------------------- arrays
\* a matrix is the sequence of its rows
NRows(A) == Len(A)
NCols(A) == Len(A[1])
Col(A, j) == [k \in 1..NRows(A) |-> A[k][j]]

Dot(u, v) == SumSeq([k \in 1..Len(u) |-> CMul(u[k], v[k])])

\* A @ v and A @ B
MatVec(A, v) == [i \in 1..NRows(A) |-> Dot(A[i], v)]
MatMul(A, B) == [i \in 1..NRows(A) |-> [j \in 1..NCols(B) |-> Dot(A[i], Col(B, j))]]

MatAdd(A, B) == [i \in 1..NRows(A) |-> [j \in 1..NCols(A) |-> CAdd(A[i][j], B[i][j])]]
Scale(c, A)  == [i \in 1..NRows(A) |-> [j \in 1..NCols(A) |-> CMul(c, A[i][j])]]

\* A.T, np.conj(A), np.trace(A)
Transpose(A) == [j \in 1..NCols(A) |-> Col(A, j)]
Conj(A)      == [i \in 1..NRows(A) |-> [j \in 1..NCols(A) |-> CConj(A[i][j])]]
Trace(A)     == SumSeq([k \in 1..NRows(A) |-> A[k][k]])

\* A.flatten(): the first row, then the second row, ...
RECURSIVE Flatten(_)
Flatten(A) == IF A = <<>> THEN <<>> ELSE A[1] \o Flatten(Tail(A))

\* np.reshape(v, (n, n))
Reshape(v, n) == [i \in 1..n |-> [j \in 1..n |-> v[(i - 1) * n + j]]]

\* the array of the entries of f, computed once
Row(f) == f \o <<>>

Identity(n) == [i \in 1..n |-> [j \in 1..n |-> IF i = j THEN One ELSE Zero]]

\* Gauss-Jordan elimination on the augmented matrix [A | I], column k onwards.
\* In exact arithmetic the inverse does not depend on the pivot chosen, so
\* the first row with a non-zero entry is taken
RECURSIVE GaussJordan(_, _)
GaussJordan(A, k) ==
    IF k > NRows(A) THEN A
    ELSE LET r    == CHOOSE r \in k..NRows(A) :
                         /\ A[r][k] # Zero
                         /\ \A q \in k..(r - 1) : A[q][k] = Zero
             S    == [A EXCEPT ![k] = A[r], ![r] = A[k]]
             piv  == CInv(S[k][k])
             prow == Row([j \in 1..NCols(S) |-> CMul(piv, S[k][j])])
             E    == Row([i \in 1..NRows(S) |->
                         IF i = k THEN prow
                         ELSE Row([j \in 1..NCols(S) |->
                                      CSub(S[i][j], CMul(S[i][k], prow[j]))])])
         IN  GaussJordan(E, k + 1)

\* np.linalg.inv(A)
Inv(A) ==
    LET n   == NRows(A)
        aug == [i \in 1..n |-> A[i] \o Identity(n)[i]]
        red == GaussJordan(aug, 1)
    IN  [i \in 1..n |-> [j \in 1..n |-> red[i][n + j]]]

\* ---------------------------------------------------------------- tomography
I == <<<<One, Zero>>, <<Zero, One>>>>
X == <<<<Zero, One>>, <<One, Zero>>>>
\* faulty variant: the imaginary unit is dropped from the entries of Y
Y_Real == <<<<Zero, <<-1, 0, 1>>>>, <<One, Zero>>>>

Y == <<<<Zero, <<0, -1, 1>>>>, <<<<0, 1, 1>>, Zero>>>>
Z == <<<<One, Zero>>, <<Zero, <<-1, 0, 1>>>>>>

PX0 == Scale(Half, <<<<One, One>>, <<One, One>>>>)
PX1 == Scale(Half, <<<<One, <<-1, 0, 1>>>>, <<<<-1, 0, 1>>, One>>>>)
PY0 == Scale(Half, <<<<One, <<0, -1, 1>>>>, <<<<0, 1, 1>>, One>>>>)
PY1 == Scale(Half, <<<<One, <<0, 1, 1>>>>, <<<<0, -1, 1>>, One>>>>)
PZ0 == <<<<One, Zero>>, <<Zero, Zero>>>>
PZ1 == <<<<Zero, Zero>>, <<Zero, One>>>>

\* faulty variant: the two Y projectors are listed in the other order
projectors_YSwapped == <<PX0, PX1, PY1, PY0, PZ0, PZ1>>

projectors == <<PX0, PX1, PY0, PY1, PZ0, PZ1>>

\* M = np.array([p.flatten() for p in projectors])
FlattenAll(ps) == [k \in 1..Len(ps) |-> Flatten(ps[k])]

\* np.conj(M).T
Dagger(A) == Transpose(Conj(A))

\* faulty variant: M_dg is taken for the inverse, as it would be for a unitary M
LinearInversion_NoInv(A) == Dagger(A)

\* np.linalg.inv(M_dg @ M) @ M_dg
LinearInversion(A) == MatMul(Inv(MatMul(Dagger(A), A)), Dagger(A))

\* the Born probabilities tr(P rho) of the six outcomes, in the order of the
\* projectors
Born(r) == [k \in 1..Len(projectors) |-> Trace(MatMul(projectors[k], r))]

\* the matrix the notebook displays for (M^dagger M)^-1 M^dagger
DisplayedInversion ==
    << <<Cx(1, 0, 6), Cx(1, 0, 6), Cx(1, 0, 6), Cx(1, 0, 6), Cx(4, 0, 6), Cx(-2, 0, 6)>>,
       <<Cx(1, 0, 2), Cx(-1, 0, 2), Cx(0, 1, 2), Cx(0, -1, 2), Zero, Zero>>,
       <<Cx(1, 0, 2), Cx(-1, 0, 2), Cx(0, -1, 2), Cx(0, 1, 2), Zero, Zero>>,
       <<Cx(1, 0, 6), Cx(1, 0, 6), Cx(1, 0, 6), Cx(1, 0, 6), Cx(-2, 0, 6), Cx(4, 0, 6)>> >>

\* density matrices (I + (x X + y Y + z Z) / BlochDen) / 2 of the Bloch
\* vectors of the grid that lie in the unit ball
BlochRange == (0 - BlochDen)..BlochDen

DensityGrid ==
    {Scale(Half, MatAdd(I, MatAdd(Scale(Cx(b[1], 0, BlochDen), X),
                           MatAdd(Scale(Cx(b[2], 0, BlochDen), Y),
                                  Scale(Cx(b[3], 0, BlochDen), Z))))) :
        b \in {c \in BlochRange \X BlochRange \X BlochRange :
                  c[1] * c[1] + c[2] * c[2] + c[3] * c[3] <= BlochDen * BlochDen}}

\* 2 x 2 matrices with entries 0, k, -k, ik, -ik
GridEntries ==
    {Zero} \cup UNION {{<<k, 0, 1>>, <<-k, 0, 1>>, <<0, k, 1>>, <<0, -k, 1>>} :
                          k \in 1..MaxEntry}

MatrixGrid == {<<<<a, b>>, <<c, d>>>> : a \in GridEntries, b \in GridEntries,
                                         c \in GridEntries, d \in GridEntries}

\* hermitian, of trace 1, positive semidefinite
IsDensity(r) ==
    /\ r = Dagger(r)
    /\ Trace(r) = One
    /\ r[1][1][1] >= 0
    /\ r[2][2][1] >= 0
    /\ CSub(CMul(r[1][1], r[2][2]), CMul(r[1][2], r[2][1]))[1] >= 0

\* M = np.array([p.flatten() for p in projectors])
T_M ==
    /\ t_pc = "M"
    /\ M' = FlattenAll(projectors)
    /\ t_pc' = "inversion"
    /\ UNCHANGED <<M_dg, linear_inversion_matrix, rho, p, rho_rec>>
    /\ UNCHANGED <<session_vars, nb_vars, wine_vars, tomo2_vars, hello_vars>>

\* M_dg = np.conj(M).T;  linear_inversion_matrix = np.linalg.inv(M_dg @ M) @ M_dg
T_Inversion ==
    /\ t_pc = "inversion"
    /\ M_dg' = Dagger(M)
    /\ linear_inversion_matrix' = LinearInversion(M)
    /\ t_pc' = "measure"
    /\ UNCHANGED <<M, rho, p, rho_rec>>
    /\ UNCHANGED <<session_vars, nb_vars, wine_vars, tomo2_vars, hello_vars>>

\* M applied to the flattened matrix: the probability vector of the example
T_Measure ==
    /\ t_pc = "measure"
    /\ \E v \in DensityGrid \cup MatrixGrid :
          /\ rho' = v
          /\ p' = MatVec(M, Flatten(v))
    /\ t_pc' = "reconstruct"
    /\ UNCHANGED <<M, M_dg, linear_inversion_matrix, rho_rec>>
    /\ UNCHANGED <<session_vars, nb_vars, wine_vars, tomo2_vars, hello_vars>>

\* multiplication by the linear inversion matrix: the reconstruction
T_Reconstruct ==
    /\ t_pc = "reconstruct"
    /\ rho_rec' = MatVec(linear_inversion_matrix, p)
    /\ t_pc' = "done"
    /\ UNCHANGED <<M, M_dg, linear_inversion_matrix, rho, p>>
    /\ UNCHANGED <<session_vars, nb_vars, wine_vars, tomo2_vars, hello_vars>>

\* faulty variant: the factor 0.5 is left out
HS_product_NoHalf(A, B) == Trace(MatMul(Dagger(B), A))

\* 0.5*np.trace(np.conj(B).T @ A)
HS_product(A, B) == CMul(Half, Trace(MatMul(Dagger(B), A)))

Paulis == {I, X, Y, Z}

\* matrices HS_product is applied to: the Pauli matrices and the projectors
HSArgs == Paulis \cup {projectors[k] : k \in 1..Len(projectors)}

\* a call HS_product(A, B) once the cell defining it has run
T_HSProduct ==
    /\ t_pc = "M"
    /\ \E A \in HSArgs, B \in HSArgs :
          /\ hs_A' = A
          /\ hs_B' = B
          /\ hs' = HS_product(A, B)
    /\ t_pc' = "hs_done"
    /\ UNCHANGED <<M, M_dg, linear_inversion_matrix, rho, p, rho_rec>>
    /\ UNCHANGED <<projectors_2, M_2, M_dg_2, linear_inversion_matrix_2, statefit_data>>
    /\ UNCHANGED <<session_vars, nb_vars, wine_vars, hello_vars>>

\* A - B
MatSub(A, B) == MatAdd(A, Scale(<<-1, 0, 1>>, B))

\* faulty variant: the entrywise product A * B
Kron_Elementwise(A, B) ==
    [i \in 1..NRows(A) |-> [j \in 1..NCols(A) |-> CMul(A[i][j], B[i][j])]]

\* np.kron(A, B)
Kron(A, B) ==
    [i \in 1..(NRows(A) * NRows(B)) |->
        [j \in 1..(NCols(A) * NCols(B)) |->
            CMul(A[((i - 1) \div NRows(B)) + 1][((j - 1) \div NCols(B)) + 1],
                 B[((i - 1) % NRows(B)) + 1][((j - 1) % NCols(B)) + 1])]]

\* itertools.product(s, repeat = 2): the last position varies fastest
Product2(s) ==
    [k \in 1..(Len(s) * Len(s)) |->
        <<s[((k - 1) \div Len(s)) + 1], s[((k - 1) % Len(s)) + 1]>>]

\* [np.kron(p1, p2) for (p1, p2) in itertools.product(projectors, repeat = 2)]
KronAll(ps) == [k \in 1..Len(Product2(ps)) |-> Kron(Product2(ps)[k][1], Product2(ps)[k][2])]

\* the cell of the 2-qubit example: projectors_2, M_2, M_dg_2 and
\* linear_inversion_matrix_2
T_TwoQubit ==
    /\ t_pc = "measure"
    /\ projectors_2' = KronAll(projectors)
    /\ M_2' = FlattenAll(projectors_2')
    /\ M_dg_2' = Dagger(M_2')
    /\ linear_inversion_matrix_2' = LinearInversion(M_2')
    /\ t_pc' = "bell"
    /\ UNCHANGED <<M, M_dg, linear_inversion_matrix, rho, p, rho_rec>>
    /\ UNCHANGED <<hs_A, hs_B, hs, statefit_data>>
    /\ UNCHANGED <<session_vars, nb_vars, wine_vars, hello_vars>>

\* the keys of statefit.data the notebook displays for the Bell state
DisplayedSettings ==
    << <<"X", "X">>, <<"X", "Y">>, <<"X", "Z">>,
       <<"Y", "X">>, <<"Y", "Y">>, <<"Y", "Z">>,
       <<"Z", "X">>, <<"Z", "Y">>, <<"Z", "Z">> >>

\* qst_bell = tomo.state_tomography_circuits(bell, q2), executed and loaded
\* into the StateTomographyFitter: one entry of statefit.data per circuit
T_BellTomography ==
    /\ t_pc = "bell"
    /\ statefit_data' = DisplayedSettings
    /\ t_pc' = "bell_done"
    /\ UNCHANGED <<M, M_dg, linear_inversion_matrix, rho, p, rho_rec>>
    /\ UNCHANGED <<hs_A, hs_B, hs, projectors_2, M_2, M_dg_2, linear_inversion_matrix_2>>
    /\ UNCHANGED <<session_vars, nb_vars, wine_vars, hello_vars>>

TomoInit ==
    /\ t_pc = "M"
    /\ M = <<>>
    /\ M_dg = <<>>
    /\ linear_inversion_matrix = <<>>
    /\ rho = <<>>
    /\ p = <<>>
    /\ rho_rec = <<>>

TomoNext ==
    \/ T_M \/ T_Inversion \/ T_Measure \/ T_Reconstruct
    \/ T_HSProduct \/ T_TwoQubit \/ T_BellTomography

InitTomo ==
    SessionInit /\ NotebookIdle /\ WineIdle /\ TomoInit /\ Tomo2Idle /\ HelloIdle

SpecTomo == InitTomo /\ [][TomoNext]_vars

\* ---------------------------------------------------------------- hello_zero
\* shots of one execution: the number of samples of the printed counts
Shots == 1024

\* largest number of shots the noise of the real device flips
MaxFlips == 2

\* faulty variant: the qubit starts in 1
InitialState_One == <<Zero, One>>

\* "qubits are initialized as 0": amplitudes of 0 and of 1
InitialState == <<One, Zero>>

\* probability that a measurement of the qubit gives b
Probability(sv, b) == CMul(sv[b + 1], CConj(sv[b + 1]))

\* get_counts(): the outcomes that occurred, with their number of shots
GetCounts(t) ==
    (IF t[1] > 0 THEN <<<<"0", t[1]>>>> ELSE <<>>) \o
    (IF t[2] > 0 THEN <<<<"1", t[2]>>>> ELSE <<>>)

NotHello == <<session_vars, nb_vars, wine_vars, tomo_vars, tomo2_vars>>

\* program = qiskit.QuantumCircuit(qr, cr): one qubit, one bit, no instruction
H_Circuit ==
    /\ h_pc = "circuit"
    /\ program' = <<>>
    /\ h_pc' = "measure"
    /\ UNCHANGED <<backend, statevector, shot, tally, flips, counts>>
    /\ UNCHANGED NotHello

\* program.measure(qr, cr)
H_Measure ==
    /\ h_pc = "measure"
    /\ program' = Append(program, "measure")
    /\ h_pc' = "execute"
    /\ UNCHANGED <<backend, statevector, shot, tally, flips, counts>>
    /\ UNCHANGED NotHello

\* job = qiskit.execute(program, qiskit.BasicAer.get_backend('qasm_simulator'))
H_Execute ==
    /\ h_pc = "execute"
    /\ backend' = "qasm_simulator"
    /\ statevector' = InitialState
    /\ shot' = 0
    /\ tally' = <<0, 0>>
    /\ flips' = 0
    /\ h_pc' = "shots"
    /\ UNCHANGED <<program, counts>>
    /\ UNCHANGED NotHello

\* one shot of the job: the instructions of the program are run on a qubit
\* in its initial state; the measurement gives an outcome of non-zero
\* probability, which the noise of a real device may flip
H_Shot ==
    /\ h_pc \in {"shots", "device_shots"}
    /\ shot < Shots
    /\ program = <<"measure">>
    /\ \E b \in {0, 1}, f \in {0, 1} :
          /\ Probability(statevector, b) # Zero
          /\ f = 1 => (backend = "ibmq_device" /\ flips < MaxFlips)
          /\ tally' = [tally EXCEPT ![((b + f) % 2) + 1] = @ + 1]
          /\ flips' = flips + f
    /\ shot' = shot + 1
    /\ UNCHANGED <<h_pc, program, backend, statevector, counts>>
    /\ UNCHANGED NotHello

\* print( job.result().get_counts() ), simulator
H_Counts ==
    /\ h_pc = "shots"
    /\ shot = Shots
    /\ counts' = GetCounts(tally)
    /\ h_pc' = "device"
    /\ UNCHANGED <<program, backend, statevector, shot, tally, flips>>
    /\ UNCHANGED NotHello

\* backend = least_busy(...);  job = qiskit.execute( program, backend )
H_DeviceExecute ==
    /\ h_pc = "device"
    /\ backend' = "ibmq_device"
    /\ statevector' = InitialState
    /\ shot' = 0
    /\ tally' = <<0, 0>>
    /\ flips' = 0
    /\ h_pc' = "device_shots"
    /\ UNCHANGED <<program, counts>>
    /\ UNCHANGED NotHello

\* print( job.result().get_counts() ), real device
H_DeviceCounts ==
    /\ h_pc = "device_shots"
    /\ shot = Shots
    /\ counts' = GetCounts(tally)
    /\ h_pc' = "done"
    /\ UNCHANGED <<program, backend, statevector, shot, tally, flips>>
    /\ UNCHANGED NotHello

HelloInit ==
    /\ h_pc = "circuit"
    /\ program = <<>>
    /\ backend = "none"
    /\ statevector = <<>>
    /\ shot = 0
    /\ tally = <<0, 0>>
    /\ flips = 0
    /\ counts = <<>>

HelloNext ==
    \/ H_Circuit \/ H_Measure \/ H_Execute \/ H_Shot \/ H_Counts
    \/ H_DeviceExecute \/ H_DeviceCounts

InitHello ==
    SessionInit /\ NotebookIdle /\ WineIdle /\ TomoIdle /\ Tomo2Idle /\ HelloInit

SpecHello == InitHello /\ [][HelloNext]_vars

\* ================================================================ claims
InRemote == fn = "execute_remotely" /\ pc # "idle"

\* the statements covered by the try block, show_results included when it
\* runs on behalf of execute_remotely
InTry == \/ pc \in TrySteps
         \/ pc \in ShowSteps /\ fn = "execute_remotely"

\* C1: once the submitted job is in a final status (DONE, CANCELLED or
\* ERROR), a running execute_remotely eventually returns
C1_PollingTerminates ==
    (InRemote /\ job_status \in FinalStatus) ~> (pc = "idle")

\* C2: an exception raised at any statement inside the try block goes to the
\* catch-all, which prints the message once, executes nothing else of the
\* try block, and returns normally with no exception left to propagate
C2_Step ==
    /\ (InTry /\ failed_at' # failed_at) =>
           /\ pc' = "er_except"
           /\ exc' \in ExcKinds
    /\ (pc = "er_except" /\ pc' # pc) =>
           /\ pc' = "idle"
           /\ outcome' = "returned"
           /\ exc' = "none"
           /\ n_unavailable' = n_unavailable + 1
           /\ UNCHANGED <<n_select, n_submit, n_print, n_draw, n_hist,
                          job_status, result_counts, bars, ticks, lapse>>
    /\ (fn' = "execute_remotely" /\ pc' = "idle"
            /\ failed_at' \in TrySteps \cup ShowSteps) =>
           /\ outcome' = "returned"
           /\ exc' = "none"
           /\ n_unavailable' = 1

C2_CatchAll == [][C2_Step]_vars

C2_Witness ==
    /\ fn = "execute_remotely"
    /\ pc = "idle"
    /\ failed_at = "er_result"
    /\ caught = "Exception"
    /\ outcome = "returned"
    /\ n_unavailable = 1
    /\ n_print = 0

\* C3: one invocation selects a device at most once and submits at most one
\* job; after an exception nothing is selected, submitted or polled again,
\* and no statement of the function ever cancels the job
C3_Step ==
    /\ fn' = "execute_remotely" => n_select' <= 1 /\ n_submit' <= 1
    /\ (InRemote /\ failed_at # "none") =>
           /\ pc' \in {pc, "idle"}
           /\ UNCHANGED <<n_select, n_submit>>
    /\ (InRemote /\ pc' # pc /\ job_status # "CANCELLED") =>
           job_status' # "CANCELLED"

C3_NoRetry == [][C3_Step]_vars

C3_Witness ==
    /\ fn = "execute_remotely"
    /\ pc = "idle"
    /\ failed_at = "er_sleep"
    /\ n_select = 1
    /\ n_submit = 1
    /\ job_status = "RUNNING"

\* C4: every evaluation of the loop condition but the first comes after
\* exactly one sleep, of 10 seconds, and interval stays 10 throughout the loop
C4_Step ==
    /\ (pc = "er_while" /\ pc' \in {"er_print_lapse", "er_print_done"} /\ lapse > 0) =>
           /\ sleeps = 1
           /\ last_sleep = 10
    /\ pc \in LoopSteps =>
           /\ interval = 10
           /\ interval' = interval

C4_FixedInterval == [][C4_Step]_vars

C4_Witness ==
    /\ pc = "er_while"
    /\ lapse = 2
    /\ sleeps = 1
    /\ last_sleep = 10
    /\ interval = 10

\* C5: a call of execute_locally that runs to its end has run the circuit
\* once on the qasm simulator and printed the result line once, before the
\* branch; then draw_circuit=True draws the circuit and shows no histogram,
\* draw_circuit=False shows the histogram of the counts and draws nothing
C5_LocalBranch ==
    /\ (fn = "execute_locally" /\ pc \in {"el_branch"} \cup ShowSteps) =>
           /\ run_backend = "qasm_simulator"
           /\ n_submit = 1
           /\ n_print = 1
           /\ n_draw = 0
           /\ n_hist = 0
           /\ pc \in ShowSteps => ~draw_circuit
    /\ (fn = "execute_locally" /\ pc = "idle" /\ outcome = "returned") =>
           /\ run_backend = "qasm_simulator"
           /\ n_submit = 1
           /\ n_print = 1
           /\ draw_circuit => n_draw = 1 /\ n_hist = 0 /\ bars = <<>>
           /\ ~draw_circuit =>
                 /\ n_draw = 0
                 /\ n_hist = 1
                 /\ bars = BarPlot(result_counts)

C5_Witness ==
    /\ fn = "execute_locally"
    /\ pc = "idle"
    /\ outcome = "returned"
    /\ draw_circuit
    /\ n_draw = 1
    /\ n_print = 1

C7_WineSizes ==
    (w_pc = "done" /\ training_size + test_size <= WineRows) =>
        /\ sample_train = <<training_size, n_features>>
        /\ label_train = training_size
        /\ sample_test = <<test_size, n_features>>
        /\ label_test = test_size

\* C8: for every density matrix rho, M applied to the row-major flattening of
\* rho is the vector of Born probabilities tr(P rho) of the six projectors
C8_BornProbabilities ==
    (t_pc \in {"reconstruct", "done"} /\ IsDensity(rho)) => p = Born(rho)

\* C9: linear_inversion_matrix applied to M v gives back the flattened v
C9_LeftInverse ==
    t_pc = "done" => rho_rec = Flatten(rho)

C9_Witness ==
    /\ t_pc = "done"
    /\ rho = <<<<Zero, <<0, 1, 1>>>>, <<One, <<-1, 0, 1>>>>>>
    /\ rho_rec = <<Zero, <<0, 1, 1>>, One, <<-1, 0, 1>>>>

\* C10: the computed linear_inversion_matrix is the 4 x 6 matrix displayed
C10_DisplayedMatrix ==
    t_pc \in {"measure", "reconstruct", "done"} =>
        linear_inversion_matrix = DisplayedInversion

C10_Witness ==
    /\ t_pc = "measure"
    /\ linear_inversion_matrix[1][5] = <<2, 0, 3>>
    /\ linear_inversion_matrix[2][3] = <<0, 1, 2>>

\* C11: I, X, Y and Z are orthonormal under HS_product: the product of two
\* of them is 1 when they are the same matrix and 0 otherwise
C11_Orthonormal ==
    (t_pc = "hs_done" /\ hs_A \in Paulis /\ hs_B \in Paulis) =>
        hs = IF hs_A = hs_B THEN One ELSE Zero

C11_Witness ==
    /\ t_pc = "hs_done"
    /\ hs_A = Y
    /\ hs_B = Y
    /\ hs = One

\* C12: entry for entry, X = PX0 - PX1, Y = PY0 - PY1 and Z = PZ0 - PZ1, the
\* projectors being read back from the rows of M
C12_SpectralDecomposition ==
    M # <<>> =>
        /\ MatSub(Reshape(M[1], 2), Reshape(M[2], 2)) = X
        /\ MatSub(Reshape(M[3], 2), Reshape(M[4], 2)) = Y
        /\ MatSub(Reshape(M[5], 2), Reshape(M[6], 2)) = Z

C12_Witness ==
    /\ t_pc = "inversion"
    /\ Len(M) = 6
    /\ MatSub(Reshape(M[3], 2), Reshape(M[4], 2))[1][2] = <<0, -1, 1>>
    /\ MatSub(Reshape(M[1], 2), Reshape(M[2], 2))[1][2] = One

C14_AlwaysZero ==
    /\ backend = "qasm_simulator" => tally[2] = 0
    /\ (backend = "qasm_simulator" /\ h_pc = "device") => counts = <<<<"0", 1024>>>>

C14_Witness ==
    /\ backend = "qasm_simulator"
    /\ h_pc = "device"
    /\ program = <<"measure">>
    /\ shot = 1024
    /\ counts = <<<<"0", 1024>>>>

\* C15: once show_results(D) has shown the plot there are exactly len(D)
\* bars and len(D) ticks; bar i stands at position i with the i-th value of
\* D as its height and tick i, at the same position, carries the i-th key
C15_BarsLabelled ==
    n_hist = 1 =>
        /\ Len(bars) = Len(result_counts)
        /\ Len(ticks) = Len(result_counts)
        /\ \A i \in 1..Len(result_counts) :
              /\ bars[i] = <<i - 1, result_counts[i][2]>>
              /\ ticks[i] = <<i - 1, result_counts[i][1]>>

C15_Witness ==
    /\ fn = "show_results"
    /\ pc = "idle"
    /\ n_hist = 1
    /\ result_counts = <<<<"11", 2>>, <<"00", 1>>>>
    /\ bars = <<<<0, 2>>, <<1, 1>>>>
    /\ ticks = <<<<0, "11">>, <<1, "00">>>>

\* C16: a KeyboardInterrupt delivered at a statement of the polling loop
\* (the status check, the prints, the sleep) goes to the except clause, which
\* prints the message and returns normally with no exception left; neither
\* the delivery nor the except clause touches the submitted job
C16_Returned ==
    (fn = "execute_remotely" /\ pc = "idle" /\ failed_at \in LoopSteps
        /\ "KeyboardInterrupt" \in {exc, caught}) =>
        /\ outcome = "returned"
        /\ exc = "none"
        /\ caught = "KeyboardInterrupt"
        /\ n_unavailable = 1
        /\ n_submit = 1

C16_Step ==
    /\ (fn = "execute_remotely" /\ pc \in LoopSteps
            /\ exc = "none" /\ exc' = "KeyboardInterrupt") =>
           /\ pc' = "er_except"
           /\ failed_at' = pc
           /\ job_status' = job_status
    /\ (pc = "er_except" /\ exc = "KeyboardInterrupt" /\ pc' # pc) =>
           /\ job_status' = job_status
           /\ n_submit' = n_submit

C16_InterruptSwallowed == []C16_Returned /\ [][C16_Step]_vars

C16_Witness ==
    /\ fn = "execute_remotely"
    /\ pc = "idle"
    /\ failed_at = "er_sleep"
    /\ caught = "KeyboardInterrupt"
    /\ outcome = "returned"
    /\ exc = "none"
    /\ n_unavailable = 1
    /\ job_status = "RUNNING"

\* C17: an exception raised in execute_locally while getting the backend,
\* executing the circuit, or reading the result or the counts ends the call
\* at once and reaches the caller as it was raised; nothing has been printed,
\* drawn or plotted, and nothing is afterwards
C17_Raised ==
    (fn = "execute_locally" /\ pc = "idle"
        /\ failed_at \in {"el_backend", "el_execute", "el_result", "el_counts"}) =>
        /\ outcome = "raised"
        /\ exc \in ExcKinds
        /\ caught = "none"
        /\ n_print = 0
        /\ n_unavailable = 0
        /\ n_draw = 0
        /\ n_hist = 0
        /\ bars = <<>>
        /\ ticks = <<>>

C17_Step ==
    /\ (fn = "execute_locally"
            /\ pc \in {"el_backend", "el_execute", "el_result", "el_counts"}
            /\ failed_at' # failed_at) =>
           /\ pc' = "idle"
           /\ failed_at' = pc
           /\ exc' \in ExcKinds
    /\ (fn = "execute_locally" /\ pc = "idle" /\ outcome = "raised"
            /\ pc' = "idle") =>
           exc' = exc

C17_NoHandler == []C17_Raised /\ [][C17_Step]_vars

C17_Witness ==
    /\ fn = "execute_locally"
    /\ pc = "idle"
    /\ failed_at = "el_result"
    /\ outcome = "raised"
    /\ exc = "Exception"
    /\ n_submit = 1
    /\ n_print = 0

====
